---- MODULE Spec2Model ----
(***************************************************************************)
(* ECG Heartbeat API (src/server.js): the express request handlers and the *)
(* relational store they talk to through a pg connection pool.             *)
(*                                                                         *)
(* A handler is an async function: the code between two `await`s runs      *)
(* atomically on the event loop, and every `await` (pool.connect(),        *)
(* client.query()) is a point where other requests interleave.  Each       *)
(* action below is one such atomic piece: the resolution (or rejection) of *)
(* the awaited store call together with the synchronous code that follows  *)
(* it, up to the next await or to the end of the handler, the `catch` and  *)
(* `finally` blocks included.  A SQL statement executes atomically.        *)
(*                                                                         *)
(* The schema is not part of the repository: the tables are modelled with  *)
(* the columns the statements name, ids come from a serial counter, and a  *)
(* store call may reject for reasons the code cannot see (connection loss, *)
(* a constraint of the schema), which the handlers turn into HTTP 500.     *)
(* The users' created_at / updated_at columns are not modelled.            *)
(***************************************************************************)
EXTENDS Integers, Sequences, FiniteSets, TLC

\* ------------------------------------------------------------------ bounds
MaxInFlight == 2        \* requests in flight at once
MaxUsers == 2           \* user rows ever inserted
MaxRows == 2            \* ecg_results rows ever inserted
MaxDay == 1             \* calendar days the clock runs through, from day 0
MaxTime == 3            \* seconds in a day of the model's clock
MaxBpm == 110           \* largest bpm drawn for the classification

Procs == 1..MaxInFlight

\* ------------------------------------------------------- request values
\* A body field is absent (<<>>) or present with a value (<<v>>).
Absent == << >>
Some(v) == <<v>>

\* JavaScript `!x` for a string-valued and for a number-valued body field.
FalsyStr(f) == f = Absent \/ f[1] = ""
FalsyNum(f) == f = Absent \/ f[1] = 0

\* Path parameters are strings.  isNaN(s) coerces with Number(s); the store
\* casts the bound text to the integer column and rejects anything that is
\* not an integer literal; parseInt(s) reads the leading digits.
IntText == [t \in {"1", "2", "3"} |-> CASE t = "1" -> 1 [] t = "2" -> 2 [] t = "3" -> 3]
IsNaN(s) == s \notin (DOMAIN IntText \cup {"1.5"})
IsIntLiteral(s) == s \in DOMAIN IntText
PgInt(s) == IntText[s]
ParseInt(s) == IF s = "1.5" THEN 1 ELSE IntText[s]

NoReq ==
    [kind |-> "none", username |-> Absent, password |-> Absent, age |-> Absent,
     gender |-> Absent, userId |-> Absent, oldPassword |-> Absent,
     newPassword |-> Absent, bpm |-> Absent, pUserId |-> "", pId |-> ""]

\* `began` is history: the instant at which a save request was handled.
NoLoc == [waktu |-> 0, status |-> "", kondisi |-> "", recordCount |-> 0, began |-> 0,
          dbConnected |-> FALSE]

NoRes == [status |-> 0, success |-> FALSE, message |-> "", body |-> << >>]

VARIABLES
    pool,            \* TRUE iff the pool handle exists (server.js:19-50)
    databaseStatus,  \* the diagnostic flag (server.js:20)
    users,           \* table users: sequence of rows, users[i].id = i
    ecg,             \* table ecg_results: set of rows
    ecgSeq,          \* last id handed out by ecg_results' serial
    now,             \* wall clock: [day, time]
    checkedOut,      \* connections checked out of the pool
    pc,              \* per request slot: where its handler stands
    req,             \* per request slot: the request
    client,          \* per request slot: handler's `client` is set
    loc,             \* per request slot: handler locals living across awaits
    res,             \* per request slot: the response sent
    acquired,        \* history: connections this request obtained
    released,        \* history: client.release() calls of this request
    threw,           \* history: a store call of this request rejected
    wrote,           \* history: rows this request inserted, changed or deleted
    sent,            \* history: responses this request sent
    atStart,         \* history: the passwords stored under the request's
                     \*          username when the request arrived
    savedAt          \* history: ecg row id -> the instants at which its save
                     \*          request was handled and its row was inserted

vars == <<pool, databaseStatus, users, ecg, ecgSeq, now, checkedOut, pc, req,
          client, loc, res, acquired, released, threw, wrote, sent, atStart,
          savedAt>>

store == <<users, ecg, ecgSeq, savedAt>>

\* The instant of the clock as one number, for comparing moments.
Instant(t) == t.day * MaxTime + t.time

\* ------------------------------------------------------------ the store
\* Mutant: the existence check never finds the username.
SelectIdByUsernameNone(u) == {i \in DOMAIN users : FALSE}

\* SELECT id FROM users WHERE username = $1                (server.js:151-154)
SelectIdByUsername(u) == {i \in DOMAIN users : users[i].username = u}

\* SELECT * FROM users WHERE username = $1 AND password = $2 (server.js:214-217)
SelectByCredentials(u, pw) ==
    {i \in DOMAIN users : users[i].username = u /\ users[i].password = pw}

\* Mutant: the row is returned with every column, password included.
PublicUserWithPassword(row) == row

\* The columns of a users row that reach the response: the RETURNING list of
\* the INSERT (165) and of the UPDATE (433, 442), the select list of the
\* profile query (323), the fields the login and update responses copy
\* (235-240, 465-471).
PublicUser(row) ==
    [id |-> row.id, username |-> row.username, age |-> row.age, gender |-> row.gender]

\* INSERT INTO users (username, password, age, gender) ... (server.js:164-167)
NewUser(u, pw, a, g) ==
    [id |-> Len(users) + 1, username |-> u, password |-> pw, age |-> a, gender |-> g]

\* SELECT .. FROM users WHERE id = $1        (server.js:322-325, 387-390, 630-631)
SelectUserById(id) == {i \in DOMAIN users : users[i].id = id}

\* SELECT id FROM users WHERE username = $1 AND id != $2   (server.js:412-415)
SelectOtherByUsername(u, id) ==
    {i \in DOMAIN users : users[i].username = u /\ users[i].id # id}

\* UPDATE users SET username, age, gender [, password] WHERE id = $n (430-446)
UpdatedUser(row, u, a, g, changePw, pw) ==
    [row EXCEPT !.username = u, !.age = a, !.gender = g,
                !.password = IF changePw THEN pw ELSE @]

\* Mutant: only the low side is abnormal.
ClassifyLowOnly(bpm) ==
    IF bpm < 60 THEN [status |-> "Abnormal", kondisi |-> "Bradikardia"]
    ELSE [status |-> "Normal", kondisi |-> "Normal"]

\* Mutant: the boundaries 60 and 100 fall on the abnormal side.
ClassifyExclusive(bpm) ==
    IF bpm <= 60 THEN [status |-> "Abnormal", kondisi |-> "Bradikardia"]
    ELSE IF bpm >= 100 THEN [status |-> "Abnormal", kondisi |-> "Takikardia"]
    ELSE [status |-> "Normal", kondisi |-> "Normal"]

\* The classification of POST /api/ecg/save             (server.js:512-523)
Classify(bpm) ==
    IF bpm < 60 THEN [status |-> "Abnormal", kondisi |-> "Bradikardia"]
    ELSE IF bpm > 100 THEN [status |-> "Abnormal", kondisi |-> "Takikardia"]
    ELSE [status |-> "Normal", kondisi |-> "Normal"]

\* INSERT INTO ecg_results (..) VALUES ($1, $2, CURRENT_DATE, $3, ..) (530-535)
\* tanggal is the store's date when the statement runs; waktu is the bound
\* parameter the handler computed before it awaited the connection.
NewEcg(uid, u, waktu, bpm, status, kondisi) ==
    [id |-> ecgSeq + 1, user_id |-> uid, username |-> u, tanggal |-> now.day,
     waktu |-> waktu, bpm |-> bpm, status |-> status, kondisi |-> kondisi]

\* ... WHERE user_id = $1                               (server.js:576-579, 641, 646)
EcgOfUser(uid) == {r \in ecg : r.user_id = uid}

\* ORDER BY tanggal DESC, waktu DESC: a may come before b.
MayPrecede(a, b) ==
    \/ a.tanggal > b.tanggal
    \/ a.tanggal = b.tanggal /\ a.waktu >= b.waktu

\* The result sets the ordered SELECT may return: every arrangement of the
\* rows that respects the ORDER BY (rows that tie come in any order).
SelectHistory(uid) ==
    LET S == EcgOfUser(uid)
        n == Cardinality(S)
    IN  {s \in [1..n -> S] :
            \A i, j \in 1..n : i < j => s[i] # s[j] /\ MayPrecede(s[i], s[j])}

\* Mutant: the record is looked up by its id alone.
EcgByIdOnly(id, uid) == {r \in ecg : r.id = id}

\* ... FROM ecg_results WHERE id = $1 AND user_id = $2   (server.js:699, 710)
EcgByIdAndUser(id, uid) == {r \in ecg : r.id = id /\ r.user_id = uid}

\* ------------------------------------------------- pieces of a handler
Response(status, success, message, body) ==
    [status |-> status, success |-> success, message |-> message, body |-> body]

\* res.status(..).json(..) / res.json(..)
Send(p, r) ==
    /\ res' = [res EXCEPT ![p] = r]
    /\ sent' = [sent EXCEPT ![p] = @ + 1]

\* Mutant: the connection is released on the success path only.
FinallySuccessOnly(p) ==
    /\ pc' = [pc EXCEPT ![p] = "done"]
    /\ IF client[p] /\ res'[p].status < 400
         THEN /\ client' = [client EXCEPT ![p] = FALSE]
              /\ checkedOut' = checkedOut - 1
              /\ released' = [released EXCEPT ![p] = @ + 1]
         ELSE UNCHANGED <<client, checkedOut, released>>

\* Mutant: release is called whether or not a connection was obtained.
FinallyUnconditional(p) ==
    /\ pc' = [pc EXCEPT ![p] = "done"]
    /\ client' = [client EXCEPT ![p] = FALSE]
    /\ checkedOut' = checkedOut - 1
    /\ released' = [released EXCEPT ![p] = @ + 1]

\* finally { if (client) client.release(); } and the handler returns.
Finally(p) ==
    /\ pc' = [pc EXCEPT ![p] = "done"]
    /\ IF client[p]
         THEN /\ client' = [client EXCEPT ![p] = FALSE]
              /\ checkedOut' = checkedOut - 1
              /\ released' = [released EXCEPT ![p] = @ + 1]
         ELSE UNCHANGED <<client, checkedOut, released>>

Reply(p, r) == Send(p, r) /\ Finally(p)

\* Mutant: the catch block answers nothing.
ThrowUnanswered(p, r) ==
    /\ threw' = [threw EXCEPT ![p] = TRUE]
    /\ Finally(p)
    /\ UNCHANGED <<res, sent>>

\* A store call rejects: catch (error) { res.status(500).json(..) } finally ..
Throw(p, r) ==
    /\ threw' = [threw EXCEPT ![p] = TRUE]
    /\ Reply(p, r)

\* The pool emits 'connect' when it opens a new backend connection, and the
\* listener sets the flag (server.js:34-37).  The first connection of the
\* pool is always a new one; later ones may reuse an idle connection.
OnConnect ==
    \E fresh \in BOOLEAN :
        databaseStatus' = IF fresh \/ databaseStatus = "configured"
                            THEN "connected" ELSE databaseStatus

\* client = await pool.connect() resolves.
Acquire(p) ==
    /\ client' = [client EXCEPT ![p] = TRUE]
    /\ checkedOut' = checkedOut + 1
    /\ acquired' = [acquired EXCEPT ![p] = @ + 1]
    /\ OnConnect

\* No response is waiting to be taken off its slot.  A response is taken off
\* as soon as it is sent, before any handler runs on: taking it off changes
\* nothing a handler reads, so no interleaving of the handlers is lost.
Collected == \A p \in Procs : pc[p] # "done"

\* The handler of slot p, serving a request of this kind, stands at label.
At(p, kind, label) == Collected /\ req[p].kind = kind /\ pc[p] = label

\* The passwords stored under the username of a register or login request.
StoredPasswords(q) ==
    IF q.kind \in {"register", "login"} /\ q.username # Absent
      THEN {users[i].password :
               i \in {j \in DOMAIN users : users[j].username = q.username[1]}}
      ELSE {}

\* A request arrives and the router hands it to its handler.  It takes the
\* lowest free slot.
Arrive(p, q) ==
    /\ Collected
    /\ pc[p] = "idle"
    /\ \A o \in Procs : o < p => pc[o] # "idle"
    /\ req' = [req EXCEPT ![p] = q]
    /\ atStart' = [atStart EXCEPT ![p] = StoredPasswords(q)]

\* The handler answers before its first await.
BeginReply(p, q, r) ==
    /\ Arrive(p, q)
    /\ Reply(p, r)
    /\ UNCHANGED <<pool, databaseStatus, store, now, loc, acquired, threw, wrote>>

\* The handler reaches `await pool.connect()` with locals l.
BeginAwait(p, q, l) ==
    /\ Arrive(p, q)
    /\ pc' = [pc EXCEPT ![p] = "connect"]
    /\ loc' = [loc EXCEPT ![p] = l]
    /\ UNCHANGED <<pool, databaseStatus, store, now, checkedOut, client, res,
                   acquired, released, threw, wrote, sent>>

\* pool.connect() resolved; the handler issues its first statement.
StepConnect(p) ==
    /\ Acquire(p)
    /\ pc' = [pc EXCEPT ![p] = "q1"]
    /\ UNCHANGED <<pool, store, now, req, loc, res, released, threw, wrote, sent,
                   atStart>>

\* A statement that changed nothing resolved; the handler issues the next one.
StepGoto(p, label, l) ==
    /\ pc' = [pc EXCEPT ![p] = label]
    /\ loc' = [loc EXCEPT ![p] = l]
    /\ UNCHANGED <<pool, databaseStatus, store, now, checkedOut, req, client, res,
                   acquired, released, threw, wrote, sent, atStart>>

\* A statement that changed nothing resolved; the handler answers.
StepReply(p, r) ==
    /\ Reply(p, r)
    /\ UNCHANGED <<pool, databaseStatus, store, now, req, loc, acquired, threw,
                   wrote, atStart>>

\* The awaited store call rejected.
StepThrow(p, r) ==
    /\ Throw(p, r)
    /\ UNCHANGED <<pool, databaseStatus, store, now, req, loc, acquired, wrote,
                   atStart>>

NotConfigured == Response(500, FALSE, "Database not configured", << >>)

\* Model bound: at most MaxUsers rows are ever inserted into users.
RegistersInFlight ==
    Cardinality({p \in Procs : req[p].kind = "register" /\ pc[p] \in {"connect", "q1", "q2"}})
RoomForUser == Len(users) + RegistersInFlight < MaxUsers

\* ------------------------------------- POST /api/auth/register (126-187)
RegisterError == Response(500, FALSE, "Server error during registration", << >>)

\* Mutant: the body is validated before the pool handle is looked at.
RegisterBeginValidateFirst(p, q) ==
    /\ q.kind = "register"
    /\ RoomForUser
    /\ IF FalsyStr(q.username) \/ FalsyStr(q.password)
          \/ FalsyNum(q.age) \/ FalsyStr(q.gender)
         THEN BeginReply(p, q, Response(400, FALSE, "All fields are required", << >>))
         ELSE IF ~pool
           THEN BeginReply(p, q, NotConfigured)
           ELSE BeginAwait(p, q, NoLoc)

RegisterBegin(p, q) ==
    /\ q.kind = "register"
    /\ RoomForUser
    /\ IF ~pool
         THEN BeginReply(p, q, NotConfigured)
         ELSE IF FalsyStr(q.username) \/ FalsyStr(q.password)
                 \/ FalsyNum(q.age) \/ FalsyStr(q.gender)
           THEN BeginReply(p, q, Response(400, FALSE, "All fields are required", << >>))
           ELSE BeginAwait(p, q, NoLoc)

\* Mutant: a failed pool.connect() is caught and the call is issued again.
RegisterConnectRetry(p) ==
    /\ At(p, "register", "connect")
    /\ \/ StepConnect(p)
       \/ /\ threw' = [threw EXCEPT ![p] = TRUE]
          /\ UNCHANGED <<pool, databaseStatus, store, now, checkedOut, pc, req,
                         client, loc, res, acquired, released, wrote, sent, atStart>>

RegisterConnect(p) ==
    /\ At(p, "register", "connect")
    /\ StepConnect(p) \/ StepThrow(p, RegisterError)

\* Mutant: the check also counts a registration of the same username that has
\* passed its own check and not yet inserted.
RegisterCheckSerialized(p) ==
    /\ At(p, "register", "q1")
    /\ \/ StepThrow(p, RegisterError)
       \/ IF \/ SelectIdByUsername(req[p].username[1]) # {}
             \/ \E o \in Procs \ {p} :
                   /\ req[o].kind = "register" /\ pc[o] = "q2"
                   /\ req[o].username = req[p].username
            THEN StepReply(p, Response(400, FALSE, "Username sudah digunakan", << >>))
            ELSE StepGoto(p, "q2", loc[p])

RegisterCheck(p) ==
    /\ At(p, "register", "q1")
    /\ \/ StepThrow(p, RegisterError)
       \/ IF SelectIdByUsername(req[p].username[1]) # {}
            THEN StepReply(p, Response(400, FALSE, "Username sudah digunakan", << >>))
            ELSE StepGoto(p, "q2", loc[p])

RegisterInsert(p) ==
    /\ At(p, "register", "q2")
    /\ \/ StepThrow(p, RegisterError)
       \/ LET row == NewUser(req[p].username[1], req[p].password[1],
                             req[p].age[1], req[p].gender[1])
          IN  /\ users' = Append(users, row)
              /\ wrote' = [wrote EXCEPT ![p] = @ + 1]
              /\ Reply(p, Response(201, TRUE, "User berhasil didaftarkan",
                                   [user |-> PublicUser(row)]))
              /\ UNCHANGED <<pool, databaseStatus, ecg, ecgSeq, savedAt, now, req,
                             loc, acquired, threw, atStart>>

\* ---------------------------------------- POST /api/auth/login (190-253)
LoginError == Response(500, FALSE, "Server error during login", << >>)

\* `token_${user.id}_${Date.now()}`
Token(id) == <<"token", id, Instant(now)>>

LoginBegin(p, q) ==
    /\ q.kind = "login"
    /\ IF ~pool
         THEN BeginReply(p, q, NotConfigured)
         ELSE IF FalsyStr(q.username) \/ FalsyStr(q.password)
           THEN BeginReply(p, q, Response(400, FALSE,
                                          "Username and password are required", << >>))
           ELSE BeginAwait(p, q, NoLoc)

LoginConnect(p) ==
    /\ At(p, "login", "connect")
    /\ StepConnect(p) \/ StepThrow(p, LoginError)

LoginFind(p) ==
    /\ At(p, "login", "q1")
    /\ \/ StepThrow(p, LoginError)
       \/ LET rows == SelectByCredentials(req[p].username[1], req[p].password[1])
          IN  IF rows = {}
                THEN StepReply(p, Response(401, FALSE, "Username atau password salah", << >>))
                ELSE \E i \in rows :
                       StepReply(p, Response(200, TRUE, "Login berhasil",
                                  [token |-> Token(users[i].id),
                                   user |-> PublicUser(users[i])]))

\* ------------------------------------------ GET /api/users/all (260-299)
ListUsersError ==
    Response(500, FALSE, "Server error while fetching users", [users |-> << >>, count |-> 0])

ListUsersBegin(p, q) ==
    /\ q.kind = "listUsers"
    /\ IF ~pool
         THEN BeginReply(p, q, Response(500, FALSE, "Database not configured",
                                        [users |-> << >>, count |-> 0]))
         ELSE BeginAwait(p, q, NoLoc)

ListUsersConnect(p) ==
    /\ At(p, "listUsers", "connect")
    /\ StepConnect(p) \/ StepThrow(p, ListUsersError)

\* The select list names the password column; rows come newest first.
ListUsersQuery(p) ==
    /\ At(p, "listUsers", "q1")
    /\ \/ StepThrow(p, ListUsersError)
       \/ LET n == Len(users)
              rows == [i \in 1..n |-> users[n + 1 - i]]
          IN  StepReply(p, Response(200, TRUE, "Users retrieved successfully",
                                    [users |-> rows, count |-> n]))

\* --------------------------------------- GET /api/profile/:userId (306-352)
ProfileError == Response(500, FALSE, "Server error while fetching profile", << >>)

ProfileBegin(p, q) ==
    /\ q.kind = "profile"
    /\ IF ~pool THEN BeginReply(p, q, NotConfigured) ELSE BeginAwait(p, q, NoLoc)

ProfileConnect(p) ==
    /\ At(p, "profile", "connect")
    /\ StepConnect(p) \/ StepThrow(p, ProfileError)

ProfileQuery(p) ==
    /\ At(p, "profile", "q1")
    /\ \/ StepThrow(p, ProfileError)
       \/ /\ IsIntLiteral(req[p].pUserId)
          /\ LET rows == SelectUserById(PgInt(req[p].pUserId))
             IN  IF rows = {}
                   THEN StepReply(p, Response(404, FALSE, "User not found", << >>))
                   ELSE \E i \in rows :
                          StepReply(p, Response(200, TRUE, "Profile retrieved successfully",
                                                [user |-> PublicUser(users[i])]))

\* --------------------------------------- PUT /api/profile/update (355-484)
UpdateError == Response(500, FALSE, "Server error while updating profile", << >>)

\* if (oldPassword && newPassword)
PasswordChange(q) == ~FalsyStr(q.oldPassword) /\ ~FalsyStr(q.newPassword)

\* Mutant: the body is validated before the pool handle is looked at.
UpdateBeginValidateFirst(p, q) ==
    /\ q.kind = "update"
    /\ IF FalsyNum(q.userId) \/ FalsyStr(q.username)
          \/ FalsyNum(q.age) \/ FalsyStr(q.gender)
         THEN BeginReply(p, q, Response(400, FALSE,
                  "User ID, username, age, and gender are required", << >>))
         ELSE IF ~pool
           THEN BeginReply(p, q, NotConfigured)
           ELSE BeginAwait(p, q, NoLoc)

UpdateBegin(p, q) ==
    /\ q.kind = "update"
    /\ IF ~pool
         THEN BeginReply(p, q, NotConfigured)
         ELSE IF FalsyNum(q.userId) \/ FalsyStr(q.username)
                 \/ FalsyNum(q.age) \/ FalsyStr(q.gender)
           THEN BeginReply(p, q, Response(400, FALSE,
                    "User ID, username, age, and gender are required", << >>))
           ELSE BeginAwait(p, q, NoLoc)

UpdateConnect(p) ==
    /\ At(p, "update", "connect")
    /\ StepConnect(p) \/ StepThrow(p, UpdateError)

\* Mutant: the old password is not compared with the stored one.
UpdateUserCheckNoPassword(p) ==
    /\ At(p, "update", "q1")
    /\ \/ StepThrow(p, UpdateError)
       \/ IF SelectUserById(req[p].userId[1]) = {}
            THEN StepReply(p, Response(404, FALSE, "User not found", << >>))
            ELSE StepGoto(p, "q2", loc[p])

\* The user check and, on its row, the old-password check (386-409).
UpdateUserCheck(p) ==
    /\ At(p, "update", "q1")
    /\ \/ StepThrow(p, UpdateError)
       \/ LET rows == SelectUserById(req[p].userId[1])
          IN  IF rows = {}
                THEN StepReply(p, Response(404, FALSE, "User not found", << >>))
                ELSE \E i \in rows :
                       IF PasswordChange(req[p])
                          /\ users[i].password # req[p].oldPassword[1]
                         THEN StepReply(p, Response(400, FALSE,
                                                    "Old password is incorrect", << >>))
                         ELSE StepGoto(p, "q2", loc[p])

\* Mutant: the username check does not leave the user's own row out.
UpdateUsernameCheckAnyUser(p) ==
    /\ At(p, "update", "q2")
    /\ \/ StepThrow(p, UpdateError)
       \/ IF SelectIdByUsername(req[p].username[1]) # {}
            THEN StepReply(p, Response(400, FALSE, "Username already exists", << >>))
            ELSE StepGoto(p, "q3", loc[p])

UpdateUsernameCheck(p) ==
    /\ At(p, "update", "q2")
    /\ \/ StepThrow(p, UpdateError)
       \/ IF SelectOtherByUsername(req[p].username[1], req[p].userId[1]) # {}
            THEN StepReply(p, Response(400, FALSE, "Username already exists", << >>))
            ELSE StepGoto(p, "q3", loc[p])

\* Mutant: the UPDATE also rewrites the username kept in the user's readings.
UpdateWriteCascade(p) ==
    /\ At(p, "update", "q3")
    /\ \/ StepThrow(p, UpdateError)
       \/ LET q == req[p]
              rows == SelectUserById(q.userId[1])
          IN  IF rows = {}
                THEN StepReply(p, Response(404, FALSE,
                                           "Failed to update user profile", << >>))
                ELSE \E i \in rows :
                       LET row == UpdatedUser(users[i], q.username[1], q.age[1],
                                              q.gender[1], PasswordChange(q),
                                              IF PasswordChange(q)
                                                THEN q.newPassword[1] ELSE "")
                       IN  /\ users' = [users EXCEPT ![i] = row]
                           /\ ecg' = {IF r.user_id = row.id
                                        THEN [r EXCEPT !.username = row.username]
                                        ELSE r : r \in ecg}
                           /\ wrote' = [wrote EXCEPT ![p] = @ + 1]
                           /\ Reply(p, Response(200, TRUE, "Profile updated successfully",
                                                [user |-> PublicUser(row)]))
                           /\ UNCHANGED <<pool, databaseStatus, ecgSeq, savedAt,
                                          now, req, loc, acquired, threw, atStart>>

UpdateWrite(p) ==
    /\ At(p, "update", "q3")
    /\ \/ StepThrow(p, UpdateError)
       \/ LET q == req[p]
              rows == SelectUserById(q.userId[1])
          IN  IF rows = {}
                THEN StepReply(p, Response(404, FALSE,
                                           "Failed to update user profile", << >>))
                ELSE \E i \in rows :
                       LET row == UpdatedUser(users[i], q.username[1], q.age[1],
                                              q.gender[1], PasswordChange(q),
                                              IF PasswordChange(q)
                                                THEN q.newPassword[1] ELSE "")
                       IN  /\ users' = [users EXCEPT ![i] = row]
                           /\ wrote' = [wrote EXCEPT ![p] = @ + 1]
                           /\ Reply(p, Response(200, TRUE, "Profile updated successfully",
                                                [user |-> PublicUser(row)]))
                           /\ UNCHANGED <<pool, databaseStatus, ecg, ecgSeq, savedAt,
                                          now, req, loc, acquired, threw, atStart>>

\* ------------------------------------------- POST /api/ecg/save (491-555)
SaveError == Response(500, FALSE, "Server error while saving ECG result", << >>)

\* Model bound: at most MaxRows rows are ever inserted into ecg_results.
SavesInFlight ==
    Cardinality({p \in Procs : req[p].kind = "save" /\ pc[p] \in {"connect", "q1"}})
RoomForRow == ecgSeq + SavesInFlight < MaxRows

\* Validation, classification and `waktu` all happen before the first await.
SaveBegin(p, q) ==
    /\ q.kind = "save"
    /\ RoomForRow
    /\ IF ~pool
         THEN BeginReply(p, q, NotConfigured)
         ELSE IF FalsyNum(q.userId) \/ FalsyStr(q.username) \/ FalsyNum(q.bpm)
           THEN BeginReply(p, q, Response(400, FALSE,
                    "User ID, username, and BPM are required", << >>))
           ELSE BeginAwait(p, q, [NoLoc EXCEPT !.waktu = now.time,
                                               !.began = Instant(now),
                                               !.status = Classify(q.bpm[1]).status,
                                               !.kondisi = Classify(q.bpm[1]).kondisi])

SaveConnect(p) ==
    /\ At(p, "save", "connect")
    /\ StepConnect(p) \/ StepThrow(p, SaveError)

SaveInsert(p) ==
    /\ At(p, "save", "q1")
    /\ \/ StepThrow(p, SaveError)
       \/ LET row == NewEcg(req[p].userId[1], req[p].username[1], loc[p].waktu,
                            req[p].bpm[1], loc[p].status, loc[p].kondisi)
          IN  /\ ecg' = ecg \cup {row}
              /\ ecgSeq' = ecgSeq + 1
              /\ savedAt' = Append(savedAt, [began |-> loc[p].began,
                                               inserted |-> Instant(now)])
              /\ wrote' = [wrote EXCEPT ![p] = @ + 1]
              /\ Reply(p, Response(201, TRUE, "ECG result saved successfully",
                                   [result |-> row]))
              /\ UNCHANGED <<pool, databaseStatus, users, now, req, loc, acquired,
                             threw, atStart>>

\* ---------------------------------- GET /api/ecg/history/:userId (558-602)
HistoryError ==
    Response(500, FALSE, "Server error while fetching ECG history",
             [history |-> << >>, count |-> 0])

HistoryBegin(p, q) ==
    /\ q.kind = "history"
    /\ IF ~pool
         THEN BeginReply(p, q, Response(500, FALSE, "Database not configured",
                                        [history |-> << >>, count |-> 0]))
         ELSE BeginAwait(p, q, NoLoc)

HistoryConnect(p) ==
    /\ At(p, "history", "connect")
    /\ StepConnect(p) \/ StepThrow(p, HistoryError)

\* Mutant: an empty history is answered as not found.
HistoryQueryEmptyIsError(p) ==
    /\ At(p, "history", "q1")
    /\ \/ StepThrow(p, HistoryError)
       \/ /\ IsIntLiteral(req[p].pUserId)
          /\ \E rows \in SelectHistory(PgInt(req[p].pUserId)) :
                IF Len(rows) = 0
                  THEN StepReply(p, Response(404, FALSE, "No history",
                                             [history |-> rows, count |-> 0]))
                  ELSE StepReply(p, Response(200, TRUE,
                                             "ECG history retrieved successfully",
                                             [history |-> rows, count |-> Len(rows)]))

HistoryQuery(p) ==
    /\ At(p, "history", "q1")
    /\ \/ StepThrow(p, HistoryError)
       \/ /\ IsIntLiteral(req[p].pUserId)
          /\ \E rows \in SelectHistory(PgInt(req[p].pUserId)) :
                StepReply(p, Response(200, TRUE, "ECG history retrieved successfully",
                                      [history |-> rows, count |-> Len(rows)]))

\* ------------------------------- DELETE /api/ecg/history/:userId (605-671)
DeleteAllError == Response(500, FALSE, "Server error while deleting ECG history", << >>)

\* Mutant: the userId is only tested for presence, not with isNaN.
DeleteAllBeginPresenceOnly(p, q) ==
    /\ q.kind = "deleteAll"
    /\ IF ~pool
         THEN BeginReply(p, q, NotConfigured)
         ELSE IF q.pUserId = ""
           THEN BeginReply(p, q, Response(400, FALSE, "Invalid user ID", << >>))
           ELSE BeginAwait(p, q, NoLoc)

DeleteAllBegin(p, q) ==
    /\ q.kind = "deleteAll"
    /\ IF ~pool
         THEN BeginReply(p, q, NotConfigured)
         ELSE IF q.pUserId = "" \/ IsNaN(q.pUserId)
           THEN BeginReply(p, q, Response(400, FALSE, "Invalid user ID", << >>))
           ELSE BeginAwait(p, q, NoLoc)

DeleteAllConnect(p) ==
    /\ At(p, "deleteAll", "connect")
    /\ StepConnect(p) \/ StepThrow(p, DeleteAllError)

\* Mutant: the history is deleted without looking the user up.
DeleteAllUserCheckSkipped(p) ==
    /\ At(p, "deleteAll", "q1")
    /\ \/ StepThrow(p, DeleteAllError)
       \/ /\ IsIntLiteral(req[p].pUserId)
          /\ StepGoto(p, "q2", loc[p])

DeleteAllUserCheck(p) ==
    /\ At(p, "deleteAll", "q1")
    /\ \/ StepThrow(p, DeleteAllError)
       \/ /\ IsIntLiteral(req[p].pUserId)
          /\ IF SelectUserById(PgInt(req[p].pUserId)) = {}
               THEN StepReply(p, Response(404, FALSE, "User not found", << >>))
               ELSE StepGoto(p, "q2", loc[p])

DeleteAllCount(p) ==
    /\ At(p, "deleteAll", "q2")
    /\ \/ StepThrow(p, DeleteAllError)
       \/ StepGoto(p, "q3", [loc[p] EXCEPT !.recordCount =
                                Cardinality(EcgOfUser(PgInt(req[p].pUserId)))])

\* `Successfully deleted ${deleteResult.rowCount} ECG records`
DeletedMessage(rowCount) ==
    "Successfully deleted " \o ToString(rowCount) \o " ECG records"

DeleteAllDelete(p) ==
    /\ At(p, "deleteAll", "q3")
    /\ \/ StepThrow(p, DeleteAllError)
       \/ LET gone == EcgOfUser(PgInt(req[p].pUserId))
          IN  /\ ecg' = ecg \ gone
              /\ wrote' = [wrote EXCEPT ![p] = @ + Cardinality(gone)]
              /\ Reply(p, Response(200, TRUE, DeletedMessage(Cardinality(gone)),
                                   [deletedCount |-> Cardinality(gone),
                                    userId |-> ParseInt(req[p].pUserId),
                                    previousCount |-> loc[p].recordCount]))
              /\ UNCHANGED <<pool, databaseStatus, users, ecgSeq, savedAt, now, req,
                             loc, acquired, threw, atStart>>

\* --------------------------- DELETE /api/ecg/history/:userId/:id (674-734)
DeleteOneError == Response(500, FALSE, "Server error while deleting ECG record", << >>)

DeleteOneBegin(p, q) ==
    /\ q.kind = "deleteOne"
    /\ IF ~pool
         THEN BeginReply(p, q, NotConfigured)
         ELSE IF q.pUserId = "" \/ IsNaN(q.pUserId) \/ q.pId = "" \/ IsNaN(q.pId)
           THEN BeginReply(p, q, Response(400, FALSE,
                                          "Invalid user ID or record ID", << >>))
           ELSE BeginAwait(p, q, NoLoc)

DeleteOneConnect(p) ==
    /\ At(p, "deleteOne", "connect")
    /\ StepConnect(p) \/ StepThrow(p, DeleteOneError)

\* Mutant: the row is deleted by its id before its owner is checked.
DeleteOneCheckDeletesFirst(p) ==
    /\ At(p, "deleteOne", "q1")
    /\ \/ StepThrow(p, DeleteOneError)
       \/ /\ IsIntLiteral(req[p].pUserId) /\ IsIntLiteral(req[p].pId)
          /\ IF EcgByIdAndUser(PgInt(req[p].pId), PgInt(req[p].pUserId)) = {}
               THEN /\ ecg' = {r \in ecg : r.id # PgInt(req[p].pId)}
                    /\ Reply(p, Response(404, FALSE,
                             "ECG record not found or does not belong to user", << >>))
                    /\ UNCHANGED <<pool, databaseStatus, users, ecgSeq, savedAt,
                                   now, req, loc, acquired, threw, wrote, atStart>>
               ELSE StepGoto(p, "q2", loc[p])

DeleteOneCheck(p) ==
    /\ At(p, "deleteOne", "q1")
    /\ \/ StepThrow(p, DeleteOneError)
       \/ /\ IsIntLiteral(req[p].pUserId) /\ IsIntLiteral(req[p].pId)
          /\ IF EcgByIdAndUser(PgInt(req[p].pId), PgInt(req[p].pUserId)) = {}
               THEN StepReply(p, Response(404, FALSE,
                        "ECG record not found or does not belong to user", << >>))
               ELSE StepGoto(p, "q2", loc[p])

DeleteOneDelete(p) ==
    /\ At(p, "deleteOne", "q2")
    /\ \/ StepThrow(p, DeleteOneError)
       \/ LET gone == EcgByIdAndUser(PgInt(req[p].pId), PgInt(req[p].pUserId))
          IN  /\ ecg' = ecg \ gone
              /\ wrote' = [wrote EXCEPT ![p] = @ + Cardinality(gone)]
              /\ Reply(p, Response(200, TRUE, "Successfully deleted ECG record",
                                   [deletedRecordId |-> ParseInt(req[p].pId),
                                    userId |-> ParseInt(req[p].pUserId)]))
              /\ UNCHANGED <<pool, databaseStatus, users, ecgSeq, savedAt, now, req,
                             loc, acquired, threw, atStart>>

\* ------------------------ GET /health and checkDatabaseConnection (53-63, 108-119)
HealthResponse(database) ==
    Response(200, TRUE, "OK", [status |-> "OK", database |-> database])

\* The route callback calls checkDatabaseConnection() and awaits its result
\* (server.js:109).  Without a pool the helper returns false at once and the
\* callback is suspended on the settled result; with a pool the helper is
\* suspended at `await pool.connect()`.
HealthBegin(p, q) ==
    /\ q.kind = "health"
    /\ Arrive(p, q)
    /\ pc' = [pc EXCEPT ![p] = IF ~pool THEN "q1" ELSE "connect"]
    /\ loc' = [loc EXCEPT ![p] = NoLoc]
    /\ UNCHANGED <<pool, databaseStatus, store, now, checkedOut, client, res,
                   acquired, released, threw, wrote, sent>>

\* const client = await pool.connect(); client.release(); return true;
\* or the catch: return false.  The callback resumes in a later turn.
HealthConnect(p) ==
    /\ At(p, "health", "connect")
    /\ pc' = [pc EXCEPT ![p] = "q1"]
    /\ \/ /\ acquired' = [acquired EXCEPT ![p] = @ + 1]
          /\ OnConnect
          /\ released' = [released EXCEPT ![p] = @ + 1]
          /\ loc' = [loc EXCEPT ![p].dbConnected = TRUE]
          /\ UNCHANGED threw
       \/ /\ threw' = [threw EXCEPT ![p] = TRUE]
          /\ UNCHANGED <<databaseStatus, loc, acquired, released>>
    /\ UNCHANGED <<pool, store, now, checkedOut, req, client, res, wrote, sent,
                   atStart>>

\* dbConnected ? 'connected'
\*             : (pool ? 'configured but not connected' : 'not configured')
ActualDbStatus(dbConnected) ==
    IF dbConnected THEN "connected"
    ELSE IF pool THEN "configured but not connected" ELSE "not configured"

\* Mutant: a successful check reports the databaseStatus flag.
HealthReplyFromFlag(p) ==
    /\ At(p, "health", "q1")
    /\ Send(p, HealthResponse(IF loc[p].dbConnected
                                THEN databaseStatus
                                ELSE ActualDbStatus(FALSE)))
    /\ pc' = [pc EXCEPT ![p] = "done"]
    /\ UNCHANGED <<pool, databaseStatus, store, now, checkedOut, req, client, loc,
                   acquired, released, threw, wrote, atStart>>

\* The callback resumes from `await checkDatabaseConnection()` and answers.
HealthReply(p) ==
    /\ At(p, "health", "q1")
    /\ Send(p, HealthResponse(ActualDbStatus(loc[p].dbConnected)))
    /\ pc' = [pc EXCEPT ![p] = "done"]
    /\ UNCHANGED <<pool, databaseStatus, store, now, checkedOut, req, client, loc,
                   acquired, released, threw, wrote, atStart>>

\* ------------------- GET /, GET /api/test (70-105), the 404 handler (741-761)
RootBegin(p, q) ==
    /\ q.kind = "root"
    /\ BeginReply(p, q, Response(200, TRUE, "ECG Heartbeat API",
                                 [status |-> "running", database |-> databaseStatus]))

TestBegin(p, q) ==
    /\ q.kind = "test"
    /\ BeginReply(p, q, Response(200, TRUE, "ECG Heartbeat API is working!",
                                 [status |-> "success", database |-> databaseStatus]))

NotFoundBegin(p, q) ==
    /\ q.kind = "unmatched"
    /\ BeginReply(p, q, Response(404, FALSE, "Endpoint not found", << >>))

\* The error handler (764-771): express.json() could not parse the body and
\* passed the error on; no route callback is entered.
ErrorHandlerBegin(p, q) ==
    /\ q.kind = "malformed"
    /\ BeginReply(p, q, Response(500, FALSE, "Internal server error", << >>))

\* ------------------------------------------------------- environment
\* pool.on('error', ..): an idle backend connection failed (server.js:39-42).
PoolError ==
    /\ Collected
    /\ pool
    /\ databaseStatus # "error"
    /\ databaseStatus' = "error"
    /\ UNCHANGED <<pool, store, now, checkedOut, pc, req, client, loc, res,
                   acquired, released, threw, wrote, sent, atStart>>

\* The wall clock advances by one second; the day turns after MaxTime seconds.
Tick ==
    /\ Collected
    /\ now' = IF now.time + 1 < MaxTime
                THEN [now EXCEPT !.time = @ + 1]
                ELSE [day |-> now.day + 1, time |-> 0]
    /\ now'.day <= MaxDay
    /\ UNCHANGED <<pool, databaseStatus, store, checkedOut, pc, req, client, loc,
                   res, acquired, released, threw, wrote, sent, atStart>>

\* ----------------------------------------------------- request slots
\* The response has gone out; the slot is free for the next request.
Complete(p) ==
    /\ pc[p] = "done"
    /\ pc' = [pc EXCEPT ![p] = "idle"]
    /\ req' = [req EXCEPT ![p] = NoReq]
    /\ loc' = [loc EXCEPT ![p] = NoLoc]
    /\ res' = [res EXCEPT ![p] = NoRes]
    /\ acquired' = [acquired EXCEPT ![p] = 0]
    /\ released' = [released EXCEPT ![p] = 0]
    /\ threw' = [threw EXCEPT ![p] = FALSE]
    /\ wrote' = [wrote EXCEPT ![p] = 0]
    /\ sent' = [sent EXCEPT ![p] = 0]
    /\ atStart' = [atStart EXCEPT ![p] = {}]
    /\ UNCHANGED <<pool, databaseStatus, store, now, checkedOut, client>>

\* ------------------------------------------------------ initial state
\* DATABASE_URL absent: no pool, 'not configured'.  DATABASE_URL present: the
\* pool exists ('configured'), or new Pool threw ('error', no pool).
Init ==
    /\ \E cfg \in {"absent", "ok", "threw"} :
          /\ pool = (cfg = "ok")
          /\ databaseStatus = CASE cfg = "absent" -> "not configured"
                                [] cfg = "ok" -> "configured"
                                [] cfg = "threw" -> "error"
    /\ users = << >>
    /\ ecg = {}
    /\ ecgSeq = 0
    /\ savedAt = << >>
    /\ now = [day |-> 0, time |-> 0]
    /\ checkedOut = 0
    /\ pc = [p \in Procs |-> "idle"]
    /\ req = [p \in Procs |-> NoReq]
    /\ client = [p \in Procs |-> FALSE]
    /\ loc = [p \in Procs |-> NoLoc]
    /\ res = [p \in Procs |-> NoRes]
    /\ acquired = [p \in Procs |-> 0]
    /\ released = [p \in Procs |-> 0]
    /\ threw = [p \in Procs |-> FALSE]
    /\ wrote = [p \in Procs |-> 0]
    /\ sent = [p \in Procs |-> 0]
    /\ atStart = [p \in Procs |-> {}]

\* --------------------------------------------------------- the inputs
Usernames == {"ana", "budi"}
Passwords == {"pw1", "pw2"}
\* An id no user row ever gets.
NoSuchUser == MaxUsers + 1

Register(u, pw, a, g) ==
    [NoReq EXCEPT !.kind = "register", !.username = u, !.password = pw,
                  !.age = a, !.gender = g]

RegisterRequests ==
    {Register(Some("ana"), Some("pw1"), Some(30), Some("F")),
     Register(Some("ana"), Some("pw2"), Some(30), Some("F")),
     Register(Some("budi"), Some("pw1"), Some(30), Some("F")),
     Register(Some("ana"), Some(""), Some(30), Some("F")),
     Register(Some("ana"), Some("pw1"), Some(0), Some("F"))}

Login(u, pw) == [NoReq EXCEPT !.kind = "login", !.username = u, !.password = pw]

LoginRequests ==
    {Login(Some("ana"), Some("pw1")), Login(Some("ana"), Some("pw2")),
     Login(Some("budi"), Some("pw2")), Login(Some("ana"), Some("")),
     Login(Absent, Some("pw1"))}

Update(id, u, a, g, old, new) ==
    [NoReq EXCEPT !.kind = "update", !.userId = id, !.username = u, !.age = a,
                  !.gender = g, !.oldPassword = old, !.newPassword = new]

UpdateRequests ==
    {Update(Some(1), Some("ana"), Some(31), Some("F"), Absent, Absent),
     Update(Some(1), Some("budi"), Some(31), Some("F"), Absent, Absent),
     Update(Some(2), Some("ana"), Some(31), Some("F"), Absent, Absent),
     Update(Some(1), Some("ana"), Some(31), Some("F"), Some("pw1"), Some("pw2")),
     Update(Some(1), Some("ana"), Some(31), Some("F"), Some("pw2"), Some("pw1")),
     Update(Some(2), Some("ana"), Some(31), Some("F"), Some("pw2"), Some("pw1")),
     Update(Some(NoSuchUser), Some("ana"), Some(31), Some("F"), Some("pw2"), Some("pw1")),
     Update(Some(0), Some("ana"), Some(31), Some("F"), Some("pw2"), Some("pw1"))}

Profile(id) == [NoReq EXCEPT !.kind = "profile", !.pUserId = id]
ProfileRequests == {Profile(id) : id \in {"1", "3", "abc"}}

ListUsersRequests == {[NoReq EXCEPT !.kind = "listUsers"]}

Save(id, u, bpm) ==
    [NoReq EXCEPT !.kind = "save", !.userId = id, !.username = u, !.bpm = bpm]

SaveRequests == {Save(Some(id), Some("ana"), Some(101)) : id \in {1, 2}}

\* Every integer bpm from -MaxBpm to MaxBpm, for the classification.
ClassifyRequests == {Save(Some(1), Some("ana"), Some(bpm)) : bpm \in (0 - MaxBpm)..MaxBpm}

History(id) == [NoReq EXCEPT !.kind = "history", !.pUserId = id]
HistoryRequests == {History(id) : id \in {"1", "2"}}

DeleteAll(id) == [NoReq EXCEPT !.kind = "deleteAll", !.pUserId = id]
DeleteAllRequests == {DeleteAll(id) : id \in {"1", "3"}}

DeleteOne(uid, id) == [NoReq EXCEPT !.kind = "deleteOne", !.pUserId = uid, !.pId = id]
DeleteOneRequests == {DeleteOne(uid, id) : uid \in {"1", "2"}, id \in {"1", "2"}}

PlainRequests ==
    {[NoReq EXCEPT !.kind = k] :
        k \in {"health", "root", "test", "unmatched", "malformed"}}

\* ---------------------------------------- registration and login only
AuthRequests == RegisterRequests \cup LoginRequests

NextAuth ==
    \E p \in Procs :
        \/ \E q \in AuthRequests : RegisterBegin(p, q) \/ LoginBegin(p, q)
        \/ RegisterConnect(p) \/ RegisterCheck(p) \/ RegisterInsert(p)
        \/ LoginConnect(p) \/ LoginFind(p)
        \/ Complete(p)

SpecAuth == Init /\ [][NextAuth]_vars

\* ------------------------------- registration and profile update together
UserRequests ==
    {Register(Some(u), Some("pw1"), Some(30), Some("F")) : u \in Usernames}
    \cup UpdateRequests

NextUsers ==
    \E p \in Procs :
        \/ \E q \in UserRequests : RegisterBegin(p, q) \/ UpdateBegin(p, q)
        \/ RegisterConnect(p) \/ RegisterCheck(p) \/ RegisterInsert(p)
        \/ UpdateConnect(p) \/ UpdateUserCheck(p) \/ UpdateUsernameCheck(p)
        \/ UpdateWrite(p)
        \/ Complete(p)

SpecUsers == Init /\ [][NextUsers]_vars

\* ------------------- the four routes that answer with a user object
AccountRequests ==
    {Register(Some("ana"), Some("pw1"), Some(30), Some("F")),
     Login(Some("ana"), Some("pw1")),
     Profile("1"),
     Update(Some(1), Some("ana"), Some(31), Some("F"), Some("pw1"), Some("pw2"))}

NextAccount ==
    \E p \in Procs :
        \/ \E q \in AccountRequests :
              \/ RegisterBegin(p, q) \/ LoginBegin(p, q)
              \/ ProfileBegin(p, q) \/ UpdateBegin(p, q)
        \/ RegisterConnect(p) \/ RegisterCheck(p) \/ RegisterInsert(p)
        \/ LoginConnect(p) \/ LoginFind(p)
        \/ ProfileConnect(p) \/ ProfileQuery(p)
        \/ UpdateConnect(p) \/ UpdateUserCheck(p) \/ UpdateUsernameCheck(p)
        \/ UpdateWrite(p)
        \/ Complete(p)

SpecAccount == Init /\ [][NextAccount]_vars

\* ----------------------------------------------- with two registered users
\* Two users have registered and their requests have completed.
TwoUsers ==
    <<[id |-> 1, username |-> "ana", password |-> "pw1", age |-> 30, gender |-> "F"],
      [id |-> 2, username |-> "budi", password |-> "pw2", age |-> 30, gender |-> "F"]>>

InitTwoUsers ==
    /\ pool = TRUE
    /\ databaseStatus = "connected"
    /\ users = TwoUsers
    /\ ecg = {}
    /\ ecgSeq = 0
    /\ savedAt = << >>
    /\ now = [day |-> 0, time |-> 0]
    /\ checkedOut = 0
    /\ pc = [p \in Procs |-> "idle"]
    /\ req = [p \in Procs |-> NoReq]
    /\ client = [p \in Procs |-> FALSE]
    /\ loc = [p \in Procs |-> NoLoc]
    /\ res = [p \in Procs |-> NoRes]
    /\ acquired = [p \in Procs |-> 0]
    /\ released = [p \in Procs |-> 0]
    /\ threw = [p \in Procs |-> FALSE]
    /\ wrote = [p \in Procs |-> 0]
    /\ sent = [p \in Procs |-> 0]
    /\ atStart = [p \in Procs |-> {}]

\* Profile updates on the two registered users.
NextProfile ==
    \E p \in Procs :
        \/ \E q \in UpdateRequests : UpdateBegin(p, q)
        \/ UpdateConnect(p) \/ UpdateUserCheck(p) \/ UpdateUsernameCheck(p)
        \/ UpdateWrite(p)
        \/ Complete(p)

SpecProfile == InitTwoUsers /\ [][NextProfile]_vars

\* Saving and reading the history while the clock runs.
NextHistory ==
    \/ \E p \in Procs :
        \/ \E q \in SaveRequests \cup HistoryRequests :
              SaveBegin(p, q) \/ HistoryBegin(p, q)
        \/ SaveConnect(p) \/ SaveInsert(p)
        \/ HistoryConnect(p) \/ HistoryQuery(p)
        \/ Complete(p)
    \/ Tick

SpecHistory == InitTwoUsers /\ [][NextHistory]_vars

\* Saving, deleting and reading the history.
NextDelete ==
    \E p \in Procs :
        \/ \E q \in SaveRequests \cup HistoryRequests \cup DeleteAllRequests
                    \cup DeleteOneRequests :
              \/ SaveBegin(p, q) \/ HistoryBegin(p, q)
              \/ DeleteAllBegin(p, q) \/ DeleteOneBegin(p, q)
        \/ SaveConnect(p) \/ SaveInsert(p)
        \/ HistoryConnect(p) \/ HistoryQuery(p)
        \/ DeleteAllConnect(p) \/ DeleteAllUserCheck(p) \/ DeleteAllCount(p)
        \/ DeleteAllDelete(p)
        \/ DeleteOneConnect(p) \/ DeleteOneCheck(p) \/ DeleteOneDelete(p)
        \/ Complete(p)

SpecDelete == InitTwoUsers /\ [][NextDelete]_vars

\* ----------------------------------------------- the classification alone
\* One more row fits into ecg_results: earlier rows were saved and deleted.
InitClassify ==
    /\ pool = TRUE
    /\ databaseStatus = "connected"
    /\ users = TwoUsers
    /\ ecg = {}
    /\ ecgSeq = MaxRows - 1
    /\ savedAt = [i \in 1..(MaxRows - 1) |-> [began |-> 0, inserted |-> 0]]
    /\ now = [day |-> 0, time |-> 0]
    /\ checkedOut = 0
    /\ pc = [p \in Procs |-> "idle"]
    /\ req = [p \in Procs |-> NoReq]
    /\ client = [p \in Procs |-> FALSE]
    /\ loc = [p \in Procs |-> NoLoc]
    /\ res = [p \in Procs |-> NoRes]
    /\ acquired = [p \in Procs |-> 0]
    /\ released = [p \in Procs |-> 0]
    /\ threw = [p \in Procs |-> FALSE]
    /\ wrote = [p \in Procs |-> 0]
    /\ sent = [p \in Procs |-> 0]
    /\ atStart = [p \in Procs |-> {}]

\* The classification does not depend on other requests: one slot serves.
NextClassify ==
    \/ \E q \in ClassifyRequests : SaveBegin(1, q)
    \/ SaveConnect(1)
    \/ SaveInsert(1)
    \/ Complete(1)

SpecClassify == InitClassify /\ [][NextClassify]_vars

\* ------------------------------- the delete routes and their path parameters
\* "1.5" is a number but no integer; "abc" is no number.
ParamRequests ==
    {DeleteAll(id) : id \in {"1", "1.5", "abc"}}
    \cup {DeleteOne("1", "1"), DeleteOne("1.5", "1"), DeleteOne("1", "1.5"),
          DeleteOne("abc", "1")}
    \cup {Save(Some(1), Some("ana"), Some(72))}

NextParams ==
    \E p \in Procs :
        \/ \E q \in ParamRequests :
              SaveBegin(p, q) \/ DeleteAllBegin(p, q) \/ DeleteOneBegin(p, q)
        \/ SaveConnect(p) \/ SaveInsert(p)
        \/ DeleteAllConnect(p) \/ DeleteAllUserCheck(p) \/ DeleteAllCount(p)
        \/ DeleteAllDelete(p)
        \/ DeleteOneConnect(p) \/ DeleteOneCheck(p) \/ DeleteOneDelete(p)
        \/ Complete(p)

SpecParams == InitTwoUsers /\ [][NextParams]_vars

\* ------------------- the life of a reading: saved, read, deleted, while
\* its user is renamed
RowRequests ==
    {Save(Some(1), Some("ana"), Some(72)),
     Update(Some(1), Some("carl"), Some(31), Some("F"), Absent, Absent),
     History("1"), DeleteOne("1", "1"), DeleteAll("1")}

NextRows ==
    \E p \in Procs :
        \/ \E q \in RowRequests :
              \/ SaveBegin(p, q) \/ UpdateBegin(p, q) \/ HistoryBegin(p, q)
              \/ DeleteAllBegin(p, q) \/ DeleteOneBegin(p, q)
        \/ SaveConnect(p) \/ SaveInsert(p)
        \/ UpdateConnect(p) \/ UpdateUserCheck(p) \/ UpdateUsernameCheck(p)
        \/ UpdateWrite(p)
        \/ HistoryConnect(p) \/ HistoryQuery(p)
        \/ DeleteAllConnect(p) \/ DeleteAllUserCheck(p) \/ DeleteAllCount(p)
        \/ DeleteAllDelete(p)
        \/ DeleteOneConnect(p) \/ DeleteOneCheck(p) \/ DeleteOneDelete(p)
        \/ Complete(p)

SpecRows == InitTwoUsers /\ [][NextRows]_vars

\* --------------------- the health check next to the databaseStatus flag
HealthRequests == PlainRequests \cup ListUsersRequests

NextHealth ==
    \/ \E p \in Procs :
          \/ \E q \in HealthRequests :
                \/ HealthBegin(p, q) \/ RootBegin(p, q) \/ TestBegin(p, q)
                \/ NotFoundBegin(p, q) \/ ErrorHandlerBegin(p, q)
                \/ ListUsersBegin(p, q)
          \/ HealthConnect(p) \/ HealthReply(p)
          \/ ListUsersConnect(p) \/ ListUsersQuery(p)
          \/ Complete(p)
    \/ PoolError

SpecHealth == Init /\ [][NextHealth]_vars

\* ------------------------------------------- every route, one request each
PoolRequests ==
    {Register(Some("ana"), Some("pw1"), Some(30), Some("F")),
     Register(Some("ana"), Some("pw1"), Some(0), Some("F")),
     Login(Some("ana"), Some("pw1")), Login(Some("ana"), Some("pw2")),
     Update(Some(1), Some("ana"), Some(31), Some("F"), Some("pw1"), Some("pw2")),
     Update(Some(NoSuchUser), Some("ana"), Some(31), Some("F"), Absent, Absent),
     Profile("1"), Profile("abc"),
     Save(Some(1), Some("ana"), Some(72)), Save(Some(1), Some("ana"), Absent),
     History("1"),
     DeleteAll("1"), DeleteAll("abc"),
     DeleteOne("1", "1"), DeleteOne("2", "1")}
    \cup ListUsersRequests \cup PlainRequests

NextPool ==
    \E p \in Procs :
        \/ \E q \in PoolRequests :
              \/ RegisterBegin(p, q) \/ LoginBegin(p, q) \/ ListUsersBegin(p, q)
              \/ ProfileBegin(p, q) \/ UpdateBegin(p, q) \/ SaveBegin(p, q)
              \/ HistoryBegin(p, q) \/ DeleteAllBegin(p, q) \/ DeleteOneBegin(p, q)
              \/ HealthBegin(p, q) \/ RootBegin(p, q) \/ TestBegin(p, q)
              \/ NotFoundBegin(p, q) \/ ErrorHandlerBegin(p, q)
        \/ RegisterConnect(p) \/ RegisterCheck(p) \/ RegisterInsert(p)
        \/ LoginConnect(p) \/ LoginFind(p)
        \/ ListUsersConnect(p) \/ ListUsersQuery(p)
        \/ ProfileConnect(p) \/ ProfileQuery(p)
        \/ UpdateConnect(p) \/ UpdateUserCheck(p) \/ UpdateUsernameCheck(p)
        \/ UpdateWrite(p)
        \/ SaveConnect(p) \/ SaveInsert(p)
        \/ HistoryConnect(p) \/ HistoryQuery(p)
        \/ DeleteAllConnect(p) \/ DeleteAllUserCheck(p) \/ DeleteAllCount(p)
        \/ DeleteAllDelete(p)
        \/ DeleteOneConnect(p) \/ DeleteOneCheck(p) \/ DeleteOneDelete(p)
        \/ HealthConnect(p) \/ HealthReply(p)
        \/ Complete(p)

SpecPool == Init /\ [][NextPool]_vars

\* Registration, saving and deleting all history: the handlers with two
\* and three statements, on a store that starts empty.
CallRequests ==
    {Register(Some("ana"), Some("pw1"), Some(30), Some("F")),
     Save(Some(1), Some("ana"), Some(101)),
     DeleteAll("1")}

NextCalls ==
    \E p \in Procs :
        \/ \E q \in CallRequests :
              \/ RegisterBegin(p, q) \/ SaveBegin(p, q) \/ DeleteAllBegin(p, q)
        \/ RegisterConnect(p) \/ RegisterCheck(p) \/ RegisterInsert(p)
        \/ SaveConnect(p) \/ SaveInsert(p)
        \/ DeleteAllConnect(p) \/ DeleteAllUserCheck(p) \/ DeleteAllCount(p)
        \/ DeleteAllDelete(p)
        \/ Complete(p)

SpecCalls == Init /\ [][NextCalls]_vars

\* The writing handlers, with requests that are refused (400, 404) next to
\* requests that write.
RefusedRequests ==
    {Register(Some("ana"), Some("pw1"), Some(30), Some("F")),
     Register(Absent, Some("pw1"), Some(30), Some("F")),
     Update(Some(1), Some("ana"), Some(31), Some("F"), Some("pw1"), Some("pw2")),
     Save(Some(1), Some("ana"), Some(101)),
     Save(Some(1), Absent, Some(101)),
     DeleteAll("1"), DeleteAll("abc"),
     DeleteOne("1", "1"), DeleteOne("2", "1")}

NextRefused ==
    \E p \in Procs :
        \/ \E q \in RefusedRequests :
              \/ RegisterBegin(p, q) \/ UpdateBegin(p, q) \/ SaveBegin(p, q)
              \/ DeleteAllBegin(p, q) \/ DeleteOneBegin(p, q)
        \/ RegisterConnect(p) \/ RegisterCheck(p) \/ RegisterInsert(p)
        \/ UpdateConnect(p) \/ UpdateUserCheck(p) \/ UpdateUsernameCheck(p)
        \/ UpdateWrite(p)
        \/ SaveConnect(p) \/ SaveInsert(p)
        \/ DeleteAllConnect(p) \/ DeleteAllUserCheck(p) \/ DeleteAllCount(p)
        \/ DeleteAllDelete(p)
        \/ DeleteOneConnect(p) \/ DeleteOneCheck(p) \/ DeleteOneDelete(p)
        \/ Complete(p)

SpecRefused == Init /\ [][NextRefused]_vars

\* The server starts with or without a pool on a store that holds two users.
InitStoredUsers ==
    /\ \E cfg \in {"absent", "ok", "threw"} :
          /\ pool = (cfg = "ok")
          /\ databaseStatus = CASE cfg = "absent" -> "not configured"
                                [] cfg = "ok" -> "configured"
                                [] cfg = "threw" -> "error"
    /\ users = TwoUsers
    /\ ecg = {}
    /\ ecgSeq = 0
    /\ savedAt = << >>
    /\ now = [day |-> 0, time |-> 0]
    /\ checkedOut = 0
    /\ pc = [p \in Procs |-> "idle"]
    /\ req = [p \in Procs |-> NoReq]
    /\ client = [p \in Procs |-> FALSE]
    /\ loc = [p \in Procs |-> NoLoc]
    /\ res = [p \in Procs |-> NoRes]
    /\ acquired = [p \in Procs |-> 0]
    /\ released = [p \in Procs |-> 0]
    /\ threw = [p \in Procs |-> FALSE]
    /\ wrote = [p \in Procs |-> 0]
    /\ sent = [p \in Procs |-> 0]
    /\ atStart = [p \in Procs |-> {}]

\* Profile updates that fail several checks at once, and one that passes.
OrderRequests ==
    {Update(Some(0), Some("ana"), Some(31), Some("F"), Some("pw2"), Some("pw1")),
     Update(Some(NoSuchUser), Some("ana"), Some(31), Some("F"), Some("pw1"), Some("pw2")),
     Update(Some(1), Some("budi"), Some(31), Some("F"), Some("pw2"), Some("pw1")),
     Update(Some(2), Some("ana"), Some(31), Some("F"), Some("pw2"), Some("pw1")),
     Update(Some(1), Some("ana"), Some(31), Some("F"), Some("pw1"), Some("pw2"))}

NextOrder ==
    \E p \in Procs :
        \/ \E q \in OrderRequests : UpdateBegin(p, q)
        \/ UpdateConnect(p) \/ UpdateUserCheck(p) \/ UpdateUsernameCheck(p)
        \/ UpdateWrite(p)
        \/ Complete(p)

SpecOrder == InitStoredUsers /\ [][NextOrder]_vars

\* A handler with two statements, one with three, the health check, an
\* unmatched path and a body that does not parse, with the scheduling the event loop provides: an awaited
\* store call settles and its continuation runs, and a response that was
\* sent goes out.  Requests arrive whenever a slot is free; nothing obliges
\* them to.  The continuation of a settled call is ready for as long as it
\* has not run; here it waits while another slot's response is taken off, so
\* it is ready again and again until it runs.
ReplyRequests ==
    {Register(Some("ana"), Some("pw1"), Some(30), Some("F")),
     DeleteAll("1"),
     [NoReq EXCEPT !.kind = "health"],
     [NoReq EXCEPT !.kind = "unmatched"],
     [NoReq EXCEPT !.kind = "malformed"]}

StepReplies(p) ==
    \/ RegisterConnect(p) \/ RegisterCheck(p) \/ RegisterInsert(p)
    \/ DeleteAllConnect(p) \/ DeleteAllUserCheck(p) \/ DeleteAllCount(p)
    \/ DeleteAllDelete(p)
    \/ HealthConnect(p) \/ HealthReply(p)

NextReplies ==
    \E p \in Procs :
        \/ \E q \in ReplyRequests :
              \/ RegisterBegin(p, q) \/ DeleteAllBegin(p, q)
              \/ HealthBegin(p, q) \/ NotFoundBegin(p, q)
              \/ ErrorHandlerBegin(p, q)
        \/ StepReplies(p)
        \/ Complete(p)

SpecReplies ==
    /\ Init /\ [][NextReplies]_vars
    /\ \A p \in Procs : SF_vars(StepReplies(p)) /\ WF_vars(Complete(p))

\* ====================================================================
\* Properties
\* ====================================================================
StoreKinds ==
    {"register", "login", "listUsers", "profile", "update", "save", "history",
     "deleteAll", "deleteOne"}

Done(p) == pc[p] = "done"

\* The order of the awaited calls within a handler.
Rank(label) ==
    CASE label = "idle" -> 0
      [] label = "connect" -> 1
      [] label = "q1" -> 2
      [] label = "q2" -> 3
      [] label = "q3" -> 4
      [] label = "done" -> 5

\* C1: in every store-dependent handler and in the health check, a
\* connection obtained from the pool is released exactly once before the
\* request completes, on every exit path (success, a 4xx return made after
\* the connection was acquired, a thrown store error); the pool counts
\* exactly the connections held by handlers, and none is checked out once
\* no request is in flight.
C1_ConnectionsReleased ==
    /\ \A p \in Procs :
          /\ released[p] <= acquired[p]
          /\ Done(p) => released[p] = acquired[p] /\ ~client[p]
          /\ client[p] <=> released[p] < acquired[p]
    /\ checkedOut = Cardinality({p \in Procs : client[p]})
    /\ (\A p \in Procs : pc[p] \in {"idle", "done"}) => checkedOut = 0

\* C1 witness: a request was answered 4xx after it had acquired a
\* connection, and gave it back.
C1_Witness ==
    \E p \in Procs :
        /\ Done(p) /\ acquired[p] = 1 /\ released[p] = 1
        /\ res[p].status \in {400, 401, 404}

\* C2: no two distinct users have the same username, in every reachable
\* state of the users table, interleaved Register and Update-profile
\* requests included.
C2_UniqueUsernames ==
    \A i, j \in DOMAIN users : i # j => users[i].username # users[j].username

\* The body of a register request names all four fields.
RegisterValid(q) ==
    ~(FalsyStr(q.username) \/ FalsyStr(q.password) \/ FalsyNum(q.age) \/ FalsyStr(q.gender))

\* C3: a Register request for a username that a completed Register request
\* had already stored when it arrived inserts no row and is never answered
\* 201; when its body is complete and its store calls succeed it is
\* answered 400 with the conflict message; and no existing user row is
\* changed by any request.
C3_SecondRegisterConflicts ==
    /\ [](\A p \in Procs :
            (Done(p) /\ req[p].kind = "register" /\ atStart[p] # {}) =>
                /\ wrote[p] = 0
                /\ res[p].status # 201
                /\ (RegisterValid(req[p]) /\ ~threw[p]) =>
                      /\ res[p].status = 400
                      /\ res[p].message = "Username sudah digunakan")
    /\ [][\A i \in DOMAIN users : users'[i] = users[i]]_vars

\* C3 witness: a second registration of a stored username was answered with
\* the conflict error.
C3_Witness ==
    \E p \in Procs :
        /\ Done(p) /\ req[p].kind = "register" /\ atStart[p] # {}
        /\ res[p].status = 400 /\ res[p].message = "Username sudah digunakan"
        /\ \E i \in DOMAIN users : users[i].username = req[p].username[1]

\* C4: after a successful Register(u, p) and with no profile update, Login(u, p)
\* is answered 200 with a token and the user, Login(u, p2) with a non-empty
\* p2 # p is answered 401, and a login for an unknown username is answered
\* 401 (store calls succeeding).
C4_LoginAfterRegister ==
    \A p \in Procs :
        (pool /\ Done(p) /\ req[p].kind = "login" /\ ~threw[p]
         /\ ~FalsyStr(req[p].username) /\ ~FalsyStr(req[p].password)) =>
            /\ req[p].password[1] \in atStart[p] =>
                  /\ res[p].status = 200
                  /\ "token" \in DOMAIN res[p].body
                  /\ res[p].body.user.username = req[p].username[1]
            /\ atStart[p] \ {req[p].password[1]} # {} => res[p].status = 401
            /\ SelectIdByUsername(req[p].username[1]) = {} => res[p].status = 401

\* The classification the spec states for an integer bpm.
Expected(bpm) ==
    CASE bpm < 60 -> <<"Abnormal", "Bradikardia">>
      [] bpm > 100 -> <<"Abnormal", "Takikardia">>
      [] OTHER -> <<"Normal", "Normal">>

\* C5: the classification Save result applies is total over integer bpm:
\* below 60 Abnormal / bradycardia, above 100 Abnormal / tachycardia, every
\* other value, 60 and 100 included, Normal; it is what the handler binds to
\* the insert and what the stored row carries.
C5_ClassificationTotal ==
    /\ \A p \in Procs :
          (req[p].kind = "save" /\ pc[p] \in {"connect", "q1"}) =>
              <<loc[p].status, loc[p].kondisi>> = Expected(req[p].bpm[1])
    /\ \A r \in ecg : <<r.status, r.kondisi>> = Expected(r.bpm)
    /\ \A r \in ecg : r.bpm \in {60, 100} => r.status = "Normal"

\* C5 witness: a reading at the boundary 100 was stored as Normal.
C5_Witness ==
    \E r \in ecg : r.bpm = 100 /\ r.status = "Normal" /\ r.kondisi = "Normal"


\* C6: Get history returns the readings of the user most-recent-first: a
\* reading whose save request arrived only after another reading of the
\* user had been inserted (at a later instant of the clock) comes before
\* that reading (readings that carry the same stored date and time aside).
C6_HistoryMostRecentFirst ==
    \A p \in Procs :
        (Done(p) /\ req[p].kind = "history" /\ res[p].status = 200) =>
            LET h == res[p].body.history
            IN  \A i, j \in 1..Len(h) :
                    (i < j /\ <<h[i].tanggal, h[i].waktu>> # <<h[j].tanggal, h[j].waktu>>)
                        => ~(savedAt[h[j].id].began > savedAt[h[i].id].inserted)

\* C7: Get history for a user without readings is answered 200 with success,
\* an empty sequence and count 0 (store calls succeeding), and in every
\* history response count is the length of the returned sequence.
C7_EmptyHistoryIsSuccess ==
    \A p \in Procs :
        (Done(p) /\ req[p].kind = "history") =>
            /\ res[p].body.count = Len(res[p].body.history)
            /\ (EcgOfUser(PgInt(req[p].pUserId)) = {} /\ ~threw[p]) =>
                  /\ res[p].status = 200
                  /\ res[p].success
                  /\ res[p].body.history = << >>
                  /\ res[p].body.count = 0

\* C7 witness: a user without readings got the empty history, while the
\* other user has readings.
C7_Witness ==
    \E p \in Procs :
        /\ Done(p) /\ req[p].kind = "history" /\ res[p].status = 200
        /\ EcgOfUser(PgInt(req[p].pUserId)) = {}
        /\ res[p].body.count = 0
        /\ ecg # {}

\* C8: a Delete-one request naming a record that exists but belongs to
\* another user ends without deleting anything, answered 404 (or 500 when
\* a store call rejected); every row a Delete-one request removes has the
\* id and the user_id of the request; and a successful history query
\* returns exactly the rows of its user, so the record stays visible to its
\* owner.
C8_NoCrossUserDelete ==
    [][\A p \in Procs :
          /\ (req[p].kind = "deleteOne" /\ pc[p] # "done" /\ pc'[p] = "done"
              /\ IsIntLiteral(req[p].pId) /\ IsIntLiteral(req[p].pUserId)
              /\ \E r \in ecg : r.id = PgInt(req[p].pId)
                                /\ r.user_id # PgInt(req[p].pUserId)) =>
                 /\ ecg' = ecg
                 /\ res'[p].status \in {404, 500}
                 /\ res'[p].status = 500 => threw'[p]
          /\ (req[p].kind = "deleteOne" /\ pc[p] # pc'[p]) =>
                 \A r \in ecg \ ecg' :
                     r.id = PgInt(req[p].pId) /\ r.user_id = PgInt(req[p].pUserId)
          /\ (req[p].kind = "history" /\ pc[p] = "q1" /\ pc'[p] = "done"
              /\ res'[p].status = 200) =>
                 {res'[p].body.history[i] : i \in 1..Len(res'[p].body.history)}
                     = EcgOfUser(PgInt(req[p].pUserId))
      ]_vars

\* C8 witness: a Delete-one request for another user's record was answered
\* 404 and the record is still stored.
C8_Witness ==
    \E p \in Procs :
        /\ Done(p) /\ req[p].kind = "deleteOne" /\ res[p].status = 404
        /\ \E r \in ecg : r.id = PgInt(req[p].pId) /\ r.user_id # PgInt(req[p].pUserId)

\* C9: an Update-profile request with oldPassword and newPassword whose
\* oldPassword differs from the password stored when the handler reads the
\* user ends there, answered 400 "Old password is incorrect" (500 when the
\* read rejected), and changes no user row.
C9_WrongOldPasswordRejected ==
    /\ [][\A p \in Procs :
            (req[p].kind = "update" /\ pc[p] = "q1" /\ pc'[p] # "q1"
             /\ PasswordChange(req[p])
             /\ \E i \in DOMAIN users : /\ users[i].id = req[p].userId[1]
                                        /\ users[i].password # req[p].oldPassword[1]) =>
                /\ users' = users
                /\ pc'[p] = "done"
                /\ \/ res'[p].status = 400 /\ res'[p].message = "Old password is incorrect"
                   \/ res'[p].status = 500 /\ threw'[p]
         ]_vars
    /\ [](\A p \in Procs :
            (Done(p) /\ res[p].message = "Old password is incorrect") => wrote[p] = 0)

\* C9 witness: a password change with a wrong old password was rejected.
C9_Witness ==
    \E p \in Procs :
        /\ Done(p) /\ req[p].kind = "update" /\ res[p].status = 400
        /\ res[p].message = "Old password is incorrect"
        /\ \E i \in DOMAIN users : /\ users[i].id = req[p].userId[1]
                                   /\ users[i].password # req[p].oldPassword[1]

\* C10: without a pool handle every store-dependent route answers 500
\* "Database not configured" whatever the request it handles carries, no
\* handler ever awaits the store (the health route only awaits its helper,
\* which has returned), no connection is acquired and both tables stay as
\* they were, while GET /health, GET / and GET /api/test answer 200.
C10_NotConfiguredDegrades ==
    ~pool =>
        /\ users = << >> /\ ecg = {} /\ ecgSeq = 0 /\ checkedOut = 0
        /\ \A p \in Procs :
              /\ \/ pc[p] \in {"idle", "done"}
                 \/ req[p].kind = "health" /\ pc[p] = "q1"
              /\ acquired[p] = 0 /\ wrote[p] = 0 /\ ~threw[p]
              /\ (Done(p) /\ req[p].kind \in StoreKinds) =>
                    /\ res[p].status = 500
                    /\ res[p].message = "Database not configured"
              /\ (Done(p) /\ req[p].kind \in {"health", "root", "test"}) =>
                    res[p].status = 200

\* C10 witness: with no pool, a register request with an incomplete body was
\* answered 500 "Database not configured".
C10_Witness ==
    /\ ~pool
    /\ \E p \in Procs :
          /\ Done(p) /\ req[p].kind = "register" /\ ~RegisterValid(req[p])
          /\ res[p].status = 500 /\ res[p].message = "Database not configured"

\* C11: a Delete-all request for an id no user has never gets past the user
\* check: it deletes nothing and is answered 404 (500 when a store call
\* rejected).  For an existing user the DELETE removes exactly the rows
\* whose user_id is the request's, leaves every other row as it was and the
\* request is answered 200 with the number of rows removed, zero included.
C11_DeleteAllHistory ==
    [][\A p \in Procs :
          (req[p].kind = "deleteAll" /\ pc[p] \in {"connect", "q1", "q2", "q3"}
           /\ pc'[p] # pc[p] /\ IsIntLiteral(req[p].pUserId)) =>
              LET uid == PgInt(req[p].pUserId)
                  known == SelectUserById(uid) # {}
              IN  /\ ~known =>
                        /\ pc'[p] \in {"q1", "done"}
                        /\ ecg' = ecg
                        /\ pc'[p] = "done" =>
                              \/ res'[p].status = 404
                              \/ res'[p].status = 500 /\ threw'[p]
                  /\ (known /\ pc'[p] = "done") =>
                        \/ res'[p].status = 500 /\ threw'[p] /\ ecg' = ecg
                        \/ /\ pc[p] = "q3"
                           /\ res'[p].status = 200
                           /\ ecg' = ecg \ EcgOfUser(uid)
                           /\ res'[p].body.deletedCount = Cardinality(EcgOfUser(uid))
                  /\ pc'[p] # "done" => ecg' = ecg
      ]_vars

\* C11 witness: a user without readings had the history deleted, answered
\* 200 with zero rows deleted, and the other user's readings are still stored.
C11_Witness ==
    \E p \in Procs :
        /\ Done(p) /\ req[p].kind = "deleteAll" /\ res[p].status = 200
        /\ res[p].body.deletedCount = 0 /\ wrote[p] = 0
        /\ ecg # {}

\* C12: the user object in a response of Register, Login, Get profile or
\* Update profile has the fields id, username, age and gender and no
\* password field, whatever the request and the stored row.
C12_NoPasswordInUser ==
    \A p \in Procs :
        (Done(p) /\ req[p].kind \in {"register", "login", "profile", "update"}
         /\ "user" \in DOMAIN res[p].body) =>
            /\ "password" \notin DOMAIN res[p].body.user
            /\ DOMAIN res[p].body.user = {"id", "username", "age", "gender"}

\* C12 witness: a login was answered 200 with the user object of a row that
\* stores a password.
C12_Witness ==
    \E p \in Procs :
        /\ Done(p) /\ req[p].kind = "login" /\ res[p].status = 200
        /\ "user" \in DOMAIN res[p].body
        /\ \E i \in DOMAIN users : /\ users[i].id = res[p].body.user.id
                                   /\ users[i].password = req[p].password[1]

\* C13: an Update-profile request whose userId no user has ends at the user
\* check, answered 404; one whose username a user with another id holds
\* when the handler checks it ends there, answered 400 "Username already
\* exists"; neither changes a user row (a rejected store call gives 500
\* instead).  When only the user's own row holds the username the check
\* passes and the handler goes on to the UPDATE.
C13_UpdateConflictAndNotFound ==
    /\ [][\A p \in Procs :
            req[p].kind = "update" =>
                LET id == req[p].userId[1]
                    known == \E i \in DOMAIN users : users[i].id = id
                    taken == \E i \in DOMAIN users :
                                 /\ users[i].username = req[p].username[1]
                                 /\ users[i].id # id
                    failed == pc'[p] = "done" /\ res'[p].status = 500 /\ threw'[p]
                IN  /\ (pc[p] = "q1" /\ pc'[p] # "q1" /\ ~known) =>
                          /\ users' = users
                          /\ pc'[p] = "done"
                          /\ failed \/ res'[p].status = 404
                    /\ (pc[p] = "q2" /\ pc'[p] # "q2" /\ taken) =>
                          /\ users' = users
                          /\ pc'[p] = "done"
                          /\ \/ failed
                             \/ /\ res'[p].status = 400
                                /\ res'[p].message = "Username already exists"
                    /\ (pc[p] = "q2" /\ pc'[p] # "q2" /\ ~taken) =>
                          failed \/ pc'[p] = "q3"
         ]_vars
    /\ [](\A p \in Procs :
            (Done(p) /\ req[p].kind = "update" /\ res[p].status \in {400, 404}) =>
                wrote[p] = 0)

\* C13 witness: an update asking for the username of another user was
\* answered with the conflict error.
C13_Witness ==
    \E p \in Procs :
        /\ Done(p) /\ req[p].kind = "update" /\ res[p].status = 400
        /\ res[p].message = "Username already exists"
        /\ \E i \in DOMAIN users : /\ users[i].username = req[p].username[1]
                                   /\ users[i].id # req[p].userId[1]

\* C14: every Delete-one request answered 200 removed exactly one row (the
\* row with its id, owned by its user), whatever Delete-one and Delete-all
\* requests ran alongside it.
C14_DeleteOneRemovesOneRow ==
    \A p \in Procs :
        (Done(p) /\ req[p].kind = "deleteOne" /\ res[p].status = 200) =>
            wrote[p] = 1

\* C15: the (tanggal, waktu) stored with a reading is the date and the
\* time of day of the instant at which its row was inserted, so the stored
\* pairs of two readings are ordered as their insertions were.
C15_StampedAtInsertion ==
    /\ \A r \in ecg :
          Instant([day |-> r.tanggal, time |-> r.waktu]) = savedAt[r.id].inserted
    /\ \A a, b \in ecg :
          savedAt[a.id].inserted < savedAt[b.id].inserted =>
              Instant([day |-> a.tanggal, time |-> a.waktu])
                  < Instant([day |-> b.tanggal, time |-> b.waktu])

\* The request passes the validation its handler runs before it connects
\* (141, 204, 377, 505, 620, 689; the other routes validate nothing).
Validated(q) ==
    CASE q.kind = "register" -> RegisterValid(q)
      [] q.kind = "login" -> ~FalsyStr(q.username) /\ ~FalsyStr(q.password)
      [] q.kind = "update" -> ~(FalsyNum(q.userId) \/ FalsyStr(q.username)
                                \/ FalsyNum(q.age) \/ FalsyStr(q.gender))
      [] q.kind = "save" -> ~(FalsyNum(q.userId) \/ FalsyStr(q.username)
                              \/ FalsyNum(q.bpm))
      [] q.kind = "deleteAll" -> q.pUserId # "" /\ ~IsNaN(q.pUserId)
      [] q.kind = "deleteOne" -> /\ q.pUserId # "" /\ ~IsNaN(q.pUserId)
                                 /\ q.pId # "" /\ ~IsNaN(q.pId)
      [] OTHER -> TRUE

\* C16 as stated: every request handled by a store-dependent route has
\* acquired exactly one connection when it completes, whatever its outcome.
C16_ExactlyOneConnection ==
    \A p \in Procs :
        (Done(p) /\ req[p].kind \in StoreKinds) => acquired[p] = 1

\* C16 amended: a request handled by a store-dependent route never acquires
\* two connections.  It completes having acquired exactly one when a pool
\* exists, the request passes the handler's validation and pool.connect()
\* resolves; it completes having acquired none when it is answered
\* "Database not configured" (500), when it fails the validation (400) and
\* when the acquisition is rejected (500).
C16_AtMostOneConnection ==
    \A p \in Procs :
        req[p].kind \in StoreKinds =>
            /\ acquired[p] <= 1
            /\ Done(p) =>
                  IF ~pool
                    THEN acquired[p] = 0 /\ res[p].status = 500 /\ ~threw[p]
                    ELSE IF ~Validated(req[p])
                      THEN acquired[p] = 0 /\ res[p].status = 400 /\ ~threw[p]
                      ELSE \/ acquired[p] = 1
                           \/ acquired[p] = 0 /\ threw[p] /\ res[p].status = 500

\* C16 witness: with a pool, a save request without bpm was answered 400
\* and acquired no connection.
C16_Witness ==
    \E p \in Procs :
        /\ pool /\ Done(p) /\ req[p].kind = "save" /\ ~Validated(req[p])
        /\ res[p].status = 400 /\ acquired[p] = 0

\* C17: when pool.connect() rejects inside a store-dependent handler, the
\* handler answers 500, calls no release (it holds no connection), leaves
\* both tables and the pool's count as they were, and the pool handle stays
\* in place for the requests that follow.
C17_ConnectFailureIsAnswered ==
    [][\A p \in Procs :
          (req[p].kind \in StoreKinds /\ pc[p] = "connect" /\ pc'[p] = "done") =>
              /\ threw'[p]
              /\ res'[p].status = 500 /\ ~res'[p].success
              /\ acquired'[p] = 0 /\ released'[p] = 0 /\ ~client'[p]
              /\ checkedOut' = checkedOut
              /\ users' = users /\ ecg' = ecg /\ ecgSeq' = ecgSeq
              /\ pool' = pool
      ]_vars

\* C17 witness: a save request whose acquisition failed was answered 500
\* without a release, while another request holds a connection of the pool.
C17_Witness ==
    \E p \in Procs :
        /\ Done(p) /\ req[p].kind = "save" /\ threw[p]
        /\ acquired[p] = 0 /\ released[p] = 0 /\ res[p].status = 500
        /\ \E o \in Procs \ {p} : client[o]

\* C18: GET /health is always answered 200; it reports "connected" exactly
\* when this request acquired a connection and released it, "configured but
\* not connected" exactly when a pool exists and the acquisition was
\* rejected, and "not configured" exactly when no pool exists, whatever the
\* databaseStatus flag holds.
C18_HealthReportsOnDemand ==
    \A p \in Procs :
        (Done(p) /\ req[p].kind = "health") =>
            LET d == res[p].body.database
            IN  /\ res[p].status = 200
                /\ d \in {"connected", "configured but not connected", "not configured"}
                /\ d = "connected" <=> (acquired[p] = 1 /\ released[p] = 1)
                /\ d = "configured but not connected" <=>
                       (pool /\ threw[p] /\ acquired[p] = 0)
                /\ d = "not configured" <=> ~pool
                /\ ~client[p]

\* C18 witness: the health check reported "connected" while the flag held
\* "error".
C18_Witness ==
    \E p \in Procs :
        /\ Done(p) /\ req[p].kind = "health"
        /\ res[p].body.database = "connected"
        /\ databaseStatus = "error"

\* C19: a Delete-all request whose userId is no integer, and a Delete-one
\* request whose userId or id is no integer, acquires no connection, never
\* reaches a store query, deletes nothing and is answered 400.
C19_NonIntegerIdsRejected ==
    \A p \in Procs :
        (pool /\ (\/ req[p].kind = "deleteAll" /\ ~IsIntLiteral(req[p].pUserId)
                  \/ req[p].kind = "deleteOne" /\ ~(IsIntLiteral(req[p].pUserId)
                                                     /\ IsIntLiteral(req[p].pId)))) =>
            /\ acquired[p] = 0
            /\ pc[p] \notin {"connect", "q1", "q2", "q3"}
            /\ Done(p) => res[p].status = 400 /\ wrote[p] = 0

\* C20: a row of ecg_results appears only in the INSERT step of a save
\* request (with a fresh id), disappears only in the DELETE step of a
\* Delete-one or Delete-all request of its user, and in between keeps every
\* field, whatever other requests do, Update profile included.
C20_RowLifecycle ==
    [][/\ \A r \in ecg' \ ecg :
             /\ r.id = ecgSeq + 1
             /\ \A x \in ecg : x.id # r.id
             /\ \E p \in Procs : /\ req[p].kind = "save"
                                  /\ pc[p] = "q1" /\ pc'[p] = "done"
                                  /\ r.user_id = req[p].userId[1]
       /\ \A r \in ecg \ ecg' :
             /\ \A x \in ecg' : x.id # r.id
             /\ \E p \in Procs :
                   /\ \/ req[p].kind = "deleteOne" /\ pc[p] = "q2"
                      \/ req[p].kind = "deleteAll" /\ pc[p] = "q3"
                   /\ pc'[p] = "done"
                   /\ r.user_id = PgInt(req[p].pUserId)
       /\ \A r \in ecg : \A x \in ecg' : x.id = r.id => x = r
      ]_vars

\* C20 witness: the user of a stored reading was renamed by an update that
\* has just been answered 200, and the reading still carries the username
\* it was saved with.
C20_Witness ==
    \E p \in Procs :
        /\ Done(p) /\ req[p].kind = "update" /\ res[p].status = 200
        /\ \E r \in ecg : /\ r.user_id = req[p].userId[1]
                           /\ r.username # req[p].username[1]
                           /\ users[r.user_id].username = req[p].username[1]

\* C21: every stored reading carries the username that the user with the
\* row's user_id had when the row was saved (no user is renamed here, so
\* that is the username the user has).
C21_UsernameOfOwner ==
    \A r \in ecg :
        \E i \in DOMAIN users :
            users[i].id = r.user_id /\ users[i].username = r.username

\* C22: a save request is answered 400 exactly when userId, username or bpm
\* is not supplied; with all three supplied, for every integer bpm, 0
\* included, it inserts exactly one row and is answered 201 with the created
\* record (store calls succeeding).
C22_SaveValidation ==
    \A p \in Procs :
        (pool /\ Done(p) /\ req[p].kind = "save") =>
            LET supplied == /\ req[p].userId # Absent
                            /\ req[p].username # Absent
                            /\ req[p].bpm # Absent
            IN  /\ res[p].status = 400 <=> ~supplied
                /\ (supplied /\ ~threw[p]) =>
                      /\ res[p].status = 201
                      /\ wrote[p] = 1
                      /\ res[p].body.result.bpm = req[p].bpm[1]

\* C23: the existence check of a register request looks at the stored rows
\* only: it passes to the insert exactly when no stored row has the username,
\* whatever other register requests are in flight, and an insert that is
\* reached adds its row whatever was inserted meanwhile.  So two requests
\* with the same unused username can both stand at the insert.
C23_CheckNotSerialized ==
    [][\A p \in Procs :
          /\ (At(p, "register", "q1") /\ pc'[p] # "q1" /\ ~threw'[p]) =>
                (pc'[p] = "q2" <=>
                   ~\E i \in DOMAIN users : users[i].username = req[p].username[1])
          /\ (At(p, "register", "q2") /\ pc'[p] # "q2" /\ ~threw'[p]) =>
                /\ Len(users') = Len(users) + 1
                /\ users'[Len(users')].username = req[p].username[1]]_vars

C23_Witness ==
    \E p, o \in Procs :
        /\ p # o
        /\ req[p].kind = "register" /\ req[o].kind = "register"
        /\ pc[p] = "q2" /\ pc[o] = "q2"
        /\ req[p].username = req[o].username
        /\ ~\E i \in DOMAIN users : users[i].username = req[p].username[1]

\* C24: in every stored reading status is Normal or Abnormal, and it is
\* Normal exactly when the bpm stored in the same row is within 60..100.
C24_StoredStatus ==
    \A r \in ecg :
        /\ r.status \in {"Normal", "Abnormal"}
        /\ r.status = "Normal" <=> (60 <= r.bpm /\ r.bpm <= 100)

C24_Witness ==
    \E r \in ecg : r.bpm = MaxBpm /\ r.status = "Abnormal"

\* C25: within one request every store call is attempted at most once.  A
\* step of a request at an awaited call always leaves that call for a later
\* one or for the response, and when the call fails the request is answered
\* 500 at once: it acquires nothing more and writes nothing.
C25_NoRetry ==
    [][\A p \in Procs :
          LET mine(acq, thr, wr, r, c) == <<acq[p], thr[p], wr[p], r[p], c[p]>>
          IN  /\ (pc[p] \in {"connect", "q1", "q2", "q3"} /\
                    (pc'[p] # pc[p] \/
                     mine(acquired', threw', wrote', res', client') #
                       mine(acquired, threw, wrote, res, client))) =>
                    Rank(pc'[p]) > Rank(pc[p])
              /\ (threw'[p] /\ ~threw[p]) =>
                    /\ pc'[p] = "done"
                    /\ res'[p].status = 500
                    /\ sent'[p] = 1
                    /\ acquired'[p] = acquired[p]
                    /\ wrote'[p] = wrote[p]
                    /\ store' = store]_vars

C25_Witness ==
    \E p \in Procs :
        /\ Done(p) /\ req[p].kind = "deleteAll"
        /\ threw[p] /\ acquired[p] = 1 /\ res[p].status = 500
        /\ EcgOfUser(1) # {}

\* C26: a password change is written only if oldPassword equals the password
\* stored for the user when the UPDATE is applied, so of two concurrent
\* changes that carry the originally correct oldPassword at most one
\* replaces the password.
C26_PasswordChangeChecked ==
    [][\A p \in Procs :
          (/\ At(p, "update", "q3")
           /\ PasswordChange(req[p])
           /\ wrote'[p] = wrote[p] + 1) =>
              \E i \in DOMAIN users :
                  /\ users[i].id = req[p].userId[1]
                  /\ users[i].password = req[p].oldPassword[1]]_vars

\* C27: in every successful delete-all response deletedCount equals
\* previousCount, whatever saves and deletes of the same user run
\* concurrently.
C27_CountsAgree ==
    \A p \in Procs :
        (Done(p) /\ req[p].kind = "deleteAll" /\ res[p].status = 200) =>
            res[p].body.deletedCount = res[p].body.previousCount

\* C28: a request answered with a 4xx status leaves both stores as they
\* were: the step that answers it changes no row, and the request wrote
\* nothing before it.
C28_RefusalWritesNothing ==
    [][\A p \in Procs :
          (pc[p] # "done" /\ pc'[p] = "done" /\ res'[p].status \in 400..499) =>
              /\ users' = users /\ ecg' = ecg
              /\ wrote[p] = 0 /\ wrote'[p] = 0]_vars

C28_Witness ==
    \E p \in Procs :
        /\ Done(p) /\ req[p].kind = "deleteOne" /\ res[p].status = 404
        /\ \E r \in ecg : r.id = PgInt(req[p].pId)

\* C29: Update profile evaluates its checks in a fixed order and the first
\* failing one alone determines the response: storage configured (500),
\* required fields (400), user exists (404), old password matches when old
\* and new password are given (400), username not used by another user
\* (400).  The update statement is issued only when all of them pass.
C29_UpdateCheckOrder ==
    [][\A p \in Procs :
          LET q == req'[p]
              id == q.userId[1]
              missing == \/ FalsyNum(q.userId) \/ FalsyStr(q.username)
                         \/ FalsyNum(q.age) \/ FalsyStr(q.gender)
              known == \E i \in DOMAIN users : users[i].id = id
              wrongOld == /\ ~FalsyStr(q.oldPassword) /\ ~FalsyStr(q.newPassword)
                          /\ \E i \in DOMAIN users :
                                 /\ users[i].id = id
                                 /\ users[i].password # q.oldPassword[1]
              taken == \E i \in DOMAIN users :
                           /\ users[i].username = q.username[1]
                           /\ users[i].id # id
              answered(status, message) ==
                  /\ pc'[p] = "done"
                  /\ res'[p].status = status /\ res'[p].message = message
                  /\ users' = users
          IN  (q.kind = "update" /\ pc'[p] # pc[p] /\ ~threw'[p]) =>
                 CASE pc[p] = "idle" ->
                        IF ~pool THEN answered(500, "Database not configured")
                        ELSE IF missing
                          THEN answered(400,
                                 "User ID, username, age, and gender are required")
                          ELSE pc'[p] = "connect"
                   [] pc[p] = "connect" -> pc'[p] = "q1"
                   [] pc[p] = "q1" ->
                        IF ~known THEN answered(404, "User not found")
                        ELSE IF wrongOld
                          THEN answered(400, "Old password is incorrect")
                          ELSE pc'[p] = "q2"
                   [] pc[p] = "q2" ->
                        IF taken THEN answered(400, "Username already exists")
                        ELSE pc'[p] = "q3"
                   [] pc[p] = "q3" -> pc'[p] = "done"
                   [] OTHER -> TRUE]_vars

\* C29 witness: a request whose old password is wrong and whose username
\* belongs to another user was answered with the password error.
C29_Witness ==
    \E p \in Procs :
        /\ Done(p) /\ req[p].kind = "update"
        /\ res[p].status = 400 /\ res[p].message = "Old password is incorrect"
        /\ \E i \in DOMAIN users : /\ users[i].username = req[p].username[1]
                                   /\ users[i].id # req[p].userId[1]

\* C30: every request eventually receives exactly one response, provided
\* every store call it makes eventually returns or fails.  A handler that
\* has not finished has sent nothing, one that has finished has sent one
\* response, and a handler waiting on a store call finishes, also when the
\* call throws.
C30_ExactlyOneResponse ==
    /\ [](\A p \in Procs :
            /\ sent[p] <= 1
            /\ Done(p) <=> sent[p] = 1
            /\ Done(p) => res[p].status # 0)
    /\ \A p \in Procs :
          (pc[p] \in {"connect", "q1", "q2", "q3"}) ~> Done(p)

\* C30 witness: a register request whose statement threw after the
\* connection was obtained has its one response.
C30_Witness ==
    \E p \in Procs :
        /\ Done(p) /\ req[p].kind = "register"
        /\ threw[p] /\ acquired[p] = 1 /\ sent[p] = 1 /\ res[p].status = 500

====
